---- MODULE Spec2Model ----
(***************************************************************************)
(* Shared ZIP generation and delivery for retreat downloads                *)
(* (retreats/models.py DownloadRequest, retreats/views.py download views). *)
(* Time is counted in minutes.  The database table of DownloadRequest rows *)
(* is the sequence reqs; the id of a row is its index.                     *)
(* Spec runs every endpoint on every input; SpecLong follows longer runs   *)
(* in a cooperative environment; SpecPoll follows generation under         *)
(* polling; SpecConc interleaves the statements of concurrent              *)
(* request_retreat_download calls; SpecLate adds callbacks and polls       *)
(* between those statements; SpecLive is the fair specification of owners  *)
(* polling while the worker never answers.                                 *)
(***************************************************************************)
EXTENDS Integers, Sequences, FiniteSets, TLC

\* ---------------------------------------------------------------- bounds
MaxSteps == 4
MaxLongSteps == 7
MaxPollSteps == 5
MaxLateSteps == 2
MaxLiveSteps == 3
MaxReqs == 4
MaxTicks == 2
MaxRetry == 3
MaxDownloads == 5

\* ------------------------------------------------------ program constants
StuckMinutes == 30
ExpiryMinutes == 2880
DayMinutes == 1440
MaxLifecycleDays == 14
DefaultExtendDays == 2
PopularThreshold == 3
PopularDays == 3
VeryPopularThreshold == 5
VeryPopularDays == 5
MinExtendDays == 1
MaxExtendDays == 7

\* null of a nullable column (strings) and of a nullable number or datetime
NULL == "null"
None == -1

Users == {"u1", "u2"}
Retreats == {"R"}
\* users with an 'attended' participation in the retreat
Attended == {"u1", "u2"}
TickSizes == {31, 2881}

\* the fields the external worker reports for a finished archive
Payload1 == [s3_key |-> "k1", download_url |-> "url1", file_size |-> 100]
Payload2 == [s3_key |-> "k2", download_url |-> "url2", file_size |-> 200]
Payloads == {Payload1, Payload2}
\* the archive the worker builds for the job of request id
PayloadOf(id) == IF id % 2 = 1 THEN Payload1 ELSE Payload2
WorkerErrors == {"zip failed"}

VARIABLES reqs, jobs, s3_deleted, now, ticks, steps, quiet, resp, calls

vars == <<reqs, jobs, s3_deleted, now, ticks, steps, quiet, resp, calls>>

Ids == 1..Len(reqs)
IdsOf(db) == 1..Len(db)

\* ---------------------------------------------------------- model methods

\* DownloadRequest.save() on creation: a pending row without expiry gets 48h
SaveNew(row) ==
    IF row.expires_at = None /\ row.status = "pending"
    THEN [row EXCEPT !.expires_at = now + ExpiryMinutes]
    ELSE row

NewRow(user, retreat) ==
    [user |-> user, retreat |-> retreat, status |-> "pending",
     file_size |-> None, download_url |-> NULL, s3_key |-> NULL,
     error_message |-> "", retry_count |-> 0,
     expires_at |-> None,
     processing_started_at |-> None,
     is_shared |-> FALSE, shared_zip_key |-> NULL,
     download_count |-> 0, last_accessed_at |-> None]

\* objects.create(...): the new row gets the next id
Create(db, row) == Append(db, SaveNew(row))

is_expired(r) == r.expires_at # None /\ now > r.expires_at

mark_as_processing(r) ==
    [r EXCEPT !.status = "processing", !.processing_started_at = now]

\* a mark_as_ready that leaves file_size as it was
mark_as_ready_NoSize(r, download_url, s3_key, file_size) ==
    [r EXCEPT !.status = "ready", !.download_url = download_url,
              !.s3_key = s3_key]

mark_as_ready(r, download_url, s3_key, file_size) ==
    [r EXCEPT !.status = "ready", !.download_url = download_url,
              !.s3_key = s3_key, !.file_size = file_size]

mark_as_failed(r, error_message) ==
    [r EXCEPT !.status = "failed", !.error_message = error_message,
              !.retry_count = @ + 1]

can_retry(r) == r.status = "failed" /\ r.retry_count < 3 /\ ~is_expired(r)

Min(a, b) == IF a < b THEN a ELSE b
Max(a, b) == IF a > b THEN a ELSE b

\* the extension without the 14-day cap (models.py 781-783)
extend_lifecycle_NoCap(r, days) ==
    IF r.expires_at = None
    THEN [r EXCEPT !.expires_at = now + days * DayMinutes]
    ELSE [r EXCEPT !.expires_at = r.expires_at + days * DayMinutes]

extend_lifecycle(r, days) ==
    IF r.expires_at = None
    THEN [r EXCEPT !.expires_at = now + days * DayMinutes]
    ELSE [r EXCEPT !.expires_at =
              Min(r.expires_at + days * DayMinutes,
                  now + MaxLifecycleDays * DayMinutes)]

record_download(r) ==
    LET counted == [r EXCEPT !.download_count = @ + 1,
                             !.last_accessed_at = now]
    IN  IF counted.download_count >= PopularThreshold
        THEN extend_lifecycle(counted, PopularDays)
        ELSE IF counted.download_count >= VeryPopularThreshold
             THEN extend_lifecycle(counted, VeryPopularDays)
             ELSE counted

\* candidates of find_existing_shared_zip: shared, ready, unexpired
SharedZips(db, retreat) ==
    { i \in IdsOf(db) : /\ db[i].retreat = retreat
                        /\ db[i].is_shared
                        /\ db[i].status = "ready"
                        /\ db[i].expires_at # None
                        /\ db[i].expires_at > now }

\* order_by('-last_accessed_at').first(): a candidate that no other candidate
\* precedes; rows with equal (or null) last_accessed_at come in either order
find_existing_shared_zip(db, retreat) ==
    { i \in SharedZips(db, retreat) :
        \A j \in SharedZips(db, retreat) :
            db[j].last_accessed_at <= db[i].last_accessed_at }

update_shared_zip_info(db, id, s3_key, download_url, file_size) ==
    [i \in IdsOf(db) |->
        IF i = id
        THEN [db[i] EXCEPT !.shared_zip_key = s3_key, !.s3_key = s3_key,
                           !.download_url = download_url,
                           !.file_size = file_size]
        ELSE IF /\ db[i].retreat = db[id].retreat
                /\ db[i].is_shared
                /\ db[i].status \in {"pending", "processing"}
                /\ db[i].shared_zip_key = NULL
             THEN [db[i] EXCEPT !.shared_zip_key = s3_key, !.s3_key = s3_key,
                                !.download_url = download_url,
                                !.file_size = file_size, !.status = "ready"]
             ELSE db[i]]

\* rows cleanup_expired selects
ExpiredRows(db) ==
    { i \in IdsOf(db) : /\ db[i].expires_at # None
                        /\ db[i].expires_at < now
                        /\ db[i].status # "expired" }

cleanup_expired(db) ==
    [i \in IdsOf(db) |->
        IF i \in ExpiredRows(db) THEN [db[i] EXCEPT !.status = "expired"]
        ELSE db[i]]

CleanupDeletedKeys(db) ==
    { db[i].s3_key : i \in { j \in ExpiredRows(db) : db[j].s3_key # NULL } }


\* --------------------------------------------------------------- responses

\* resp is the last call and its answer: the endpoint, the caller, the request
\* id in the URL (arg), what the object store (s3) and the Lambda service
\* (lambda) answered if the call asked them, then the HTTP code and the
\* fields of the body
Resp(op, user, arg, code, request_id, status, download_url, message) ==
    [op |-> op, user |-> user, arg |-> arg, s3 |-> NULL, lambda |-> NULL,
     code |-> code, request_id |-> request_id, status |-> status,
     download_url |-> download_url, message |-> message]

NoResp == Resp("none", NULL, 0, 0, 0, NULL, NULL, "")

\* the result of a handler: the rows, the Lambda invocations, the answer, and
\* which external services it asked
OutAsked(db, jb, rsp, asked) ==
    [reqs |-> db, jobs |-> jb, resp |-> rsp, asked |-> asked]

Out(db, jb, rsp) == OutAsked(db, jb, rsp, {})

Replace(db, id, row) == [db EXCEPT ![id] = row]

\* ------------------------------------------------------ external job trigger

\* what the environment makes of one trigger_lambda_zip_generation call
LambdaOutcomes == {"accepted", "no_audio", "bad_status", "exception"}

\* trigger_lambda_zip_generation(download_request): ok, and the rows and the
\* Lambda invocations afterwards
trigger_lambda_zip_generation(db, jb, id, outcome) ==
    CASE outcome = "accepted" ->
            [ok |-> TRUE, reqs |-> db, jobs |-> jb \cup {id}]
      [] outcome = "no_audio" ->
            [ok |-> FALSE, jobs |-> jb,
             reqs |-> Replace(db, id,
                         mark_as_failed(db[id], "No audio files found"))]
      [] outcome = "bad_status" ->
            [ok |-> FALSE, jobs |-> jb,
             reqs |-> Replace(db, id,
                         mark_as_failed(db[id], "Lambda invocation failed"))]
      [] OTHER ->
            [ok |-> FALSE, jobs |-> jb,
             reqs |-> Replace(db, id,
                         mark_as_failed(db[id], "Lambda trigger failed"))]

\* --------------------------------------------------- request_retreat_download

LiveStatuses == {"pending", "processing", "ready"}
InFlight == {"pending", "processing"}

\* rows come back newest first (Meta.ordering = ['-created_at']); created_at is
\* taken at insertion, so the newest row is the one with the largest id
Newest(S) == CHOOSE i \in S : \A j \in S : j <= i

\* the caller's pending/processing/ready rows for the retreat
ExistingRequests(db, user, retreat) ==
    { i \in IdsOf(db) : /\ db[i].user = user
                        /\ db[i].retreat = retreat
                        /\ db[i].status \in LiveStatuses }

\* rows of the retreat that the stuck sweep fails
StuckRequests(db, retreat) ==
    { i \in IdsOf(db) : /\ db[i].retreat = retreat
                        /\ db[i].status = "processing"
                        /\ db[i].processing_started_at # None
                        /\ db[i].processing_started_at < now - StuckMinutes }

SweepStuck(db, retreat) ==
    [i \in IdsOf(db) |->
        IF i \in StuckRequests(db, retreat)
        THEN mark_as_failed(db[i], "Processing abandoned after 30 minutes")
        ELSE db[i]]

ActiveGenerations(db, retreat) ==
    { i \in IdsOf(db) : db[i].retreat = retreat /\ db[i].status \in InFlight }

\* the rows once the caller's expired request is marked and stuck rows are swept
AfterSweep(db, user, retreat) ==
    LET ex == ExistingRequests(db, user, retreat)
        db1 == IF ex # {} /\ is_expired(db[Newest(ex)])
               THEN Replace(db, Newest(ex),
                            [db[Newest(ex)] EXCEPT !.status = "expired"])
               ELSE db
    IN  SweepStuck(db1, retreat)

\* the reuse that forgets existing_zip.extend_lifecycle() (models.py 762)
ReuseSharedZip_NoExtend(db, user, retreat, zip, zipRow) ==
    Create(db, [NewRow(user, retreat) EXCEPT
                    !.is_shared = TRUE,
                    !.shared_zip_key = zipRow.shared_zip_key,
                    !.status = "ready",
                    !.file_size = zipRow.file_size,
                    !.download_url = zipRow.download_url,
                    !.s3_key = zipRow.s3_key,
                    !.expires_at = zipRow.expires_at])

\* create_shared_zip_request(user, retreat, existing_zip) with existing_zip the
\* row as it was read: the new ready row, then existing_zip.extend_lifecycle()
ReuseSharedZip(db, user, retreat, zip, zipRow) ==
    LET new == [NewRow(user, retreat) EXCEPT
                    !.is_shared = TRUE,
                    !.shared_zip_key = zipRow.shared_zip_key,
                    !.status = "ready",
                    !.file_size = zipRow.file_size,
                    !.download_url = zipRow.download_url,
                    !.s3_key = zipRow.s3_key,
                    !.expires_at = zipRow.expires_at]
        db1 == Create(db, new)
        ext == extend_lifecycle(zipRow, DefaultExtendDays)
    IN  Replace(db1, zip, [db1[zip] EXCEPT !.expires_at = ext.expires_at])

\* create_shared_zip_request(user, retreat): a new shared row, pending
NewSharedZip(db, user, retreat) ==
    Create(db, [NewRow(user, retreat) EXCEPT !.is_shared = TRUE])

\* a start that answers 201 whatever trigger_lambda_zip_generation returned
StartGeneration_Silent(db, jb, user, retreat, outcome) ==
    LET db1 == NewSharedZip(db, user, retreat)
        id == Len(db1)
        t == IF outcome = "accepted"
             THEN trigger_lambda_zip_generation(db1, jb, id, outcome)
             ELSE [ok |-> FALSE, reqs |-> db1, jobs |-> jb]
    IN  OutAsked(t.reqs, t.jobs,
                 Resp("request", user, 0, 201, id, t.reqs[id].status,
                      NULL, "ZIP generation started"),
                 {"lambda"})

\* views.py 1047-1068: the new primary and its Lambda trigger
StartGeneration(db, jb, user, retreat, outcome) ==
    LET db1 == NewSharedZip(db, user, retreat)
        id == Len(db1)
        t == trigger_lambda_zip_generation(db1, jb, id, outcome)
    IN  IF ~t.ok
        THEN OutAsked(Replace(t.reqs, id,
                          mark_as_failed(t.reqs[id],
                                         "Failed to start Lambda function")),
                      t.jobs,
                      Resp("request", user, 0, 500, 0, NULL, NULL,
                           "Failed to start ZIP generation"),
                      {"lambda"})
        ELSE OutAsked(t.reqs, t.jobs,
                      Resp("request", user, 0, 201, id, t.reqs[id].status,
                           NULL, "ZIP generation started"),
                      {"lambda"})

\* a join that leaves the new row in the default status
JoinGeneration_Pending(db, jb, user, retreat) ==
    LET db1 == Create(db, NewRow(user, retreat))
    IN  Out(db1, jb,
            Resp("request", user, 0, 201, Len(db1), db1[Len(db1)].status, NULL,
                 "ZIP generation already in progress"))

\* views.py 1010-1027: join the generation in progress
JoinGeneration(db, jb, user, retreat) ==
    LET db1 == Create(db, [NewRow(user, retreat) EXCEPT
                               !.status = "processing",
                               !.processing_started_at = now])
    IN  Out(db1, jb,
            Resp("request", user, 0, 201, Len(db1), "processing", NULL,
                 "ZIP generation already in progress"))

\* a fast path that hands out the new row without the presigned URL
FastPath_NoUrl(db, jb, user, retreat, zip, zipRow) ==
    LET db1 == ReuseSharedZip(db, user, retreat, zip,
                              [zipRow EXCEPT !.download_url = NULL])
    IN  Out(db1, jb,
            Resp("request", user, 0, 201, Len(db1), db1[Len(db1)].status,
                 NULL, "Download ready (using existing ZIP)"))

\* views.py 1032-1045: the fast path
FastPath(db, jb, user, retreat, zip, zipRow) ==
    LET db1 == ReuseSharedZip(db, user, retreat, zip, zipRow)
    IN  Out(db1, jb,
            Resp("request", user, 0, 201, Len(db1), db1[Len(db1)].status,
                 NULL, "Download ready (using existing ZIP)"))

\* the shared zips the handler may get from find_existing_shared_zip (0: none)
ZipChoices(db, retreat) ==
    IF find_existing_shared_zip(db, retreat) = {} THEN {0}
    ELSE find_existing_shared_zip(db, retreat)

\* the whole handler; zip is what find_existing_shared_zip returned
request_retreat_download(db, jb, user, retreat, zip, outcome) ==
    LET ex == ExistingRequests(db, user, retreat)
        db2 == AfterSweep(db, user, retreat)
    IN  IF user \notin Attended
        THEN Out(db, jb, Resp("request", user, 0, 500, 0, NULL, NULL,
                              "Failed to create download request"))
        ELSE IF ex # {} /\ ~is_expired(db[Newest(ex)])
        THEN Out(db, jb, Resp("request", user, 0, 200, Newest(ex),
                              db[Newest(ex)].status, NULL,
                              "Download request already exists"))
        ELSE IF ActiveGenerations(db2, retreat) # {}
        THEN JoinGeneration(db2, jb, user, retreat)
        ELSE IF zip # 0
        THEN FastPath(db2, jb, user, retreat, zip, db2[zip])
        ELSE StartGeneration(db2, jb, user, retreat, outcome)

\* ---------------------------------------------------- download_request_status

\* get_object_or_404(DownloadRequest, id=request_id, user=user)
Owned(db, user, id) == id \in IdsOf(db) /\ db[id].user = user

\* a status view without the 30-minute limit (views.py 1099-1104)
download_request_status_NoTimeout(db, jb, user, id) ==
    IF ~Owned(db, user, id)
    THEN Out(db, jb, Resp("status", user, id, 500, 0, NULL, NULL,
                          "Failed to retrieve download request status"))
    ELSE
    LET r0 == db[id]
        r1 == IF is_expired(r0) /\ r0.status # "expired"
              THEN [r0 EXCEPT !.status = "expired"] ELSE r0
    IN  Out(Replace(db, id, r1), jb,
            Resp("status", user, id, 200, id, r1.status, NULL, ""))

download_request_status(db, jb, user, id) ==
    IF ~Owned(db, user, id)
    THEN Out(db, jb, Resp("status", user, id, 500, 0, NULL, NULL,
                          "Failed to retrieve download request status"))
    ELSE
    LET r0 == db[id]
        r1 == IF is_expired(r0) /\ r0.status # "expired"
              THEN [r0 EXCEPT !.status = "expired"] ELSE r0
        r2 == IF /\ r1.status = "processing"
                 /\ r1.processing_started_at # None
                 /\ now - r1.processing_started_at > StuckMinutes
              THEN mark_as_failed(r1, "Processing timed out after 30 minutes")
              ELSE r1
    IN  Out(Replace(db, id, r2), jb,
            Resp("status", user, id, 200, id, r2.status, NULL, ""))

\* -------------------------------------------------------------- download_file

\* a check that reports a 403 like a 200 (views.py 85-93)
S3Result_DeniedPasses(kind) ==
    CASE kind \in {"ok", "denied"} ->
            [exists |-> TRUE, accessible |-> TRUE, error |-> NULL]
      [] kind = "not_found" ->
            [exists |-> FALSE, accessible |-> FALSE,
             error |-> "File not found"]
      [] OTHER ->
            [exists |-> FALSE, accessible |-> FALSE, error |-> "S3 error"]

\* check_s3_file_exists: head_object answers 200, 404, 403 or fails otherwise
S3Result(kind) ==
    CASE kind = "ok" ->
            [exists |-> TRUE, accessible |-> TRUE, error |-> NULL]
      [] kind = "not_found" ->
            [exists |-> FALSE, accessible |-> FALSE,
             error |-> "File not found"]
      [] kind = "denied" ->
            [exists |-> TRUE, accessible |-> FALSE,
             error |-> "Access denied"]
      [] OTHER ->
            [exists |-> FALSE, accessible |-> FALSE, error |-> "S3 error"]

\* the answers the object store can give for a key
S3Kinds(key, deleted) ==
    IF key \in deleted THEN {"not_found", "error"}
    ELSE {"ok", "denied", "error"}

\* f"S3 file not accessible: {s3_validation['error']}"
NotAccessible(error) ==
    CASE error = "File not found" -> "S3 file not accessible: File not found"
      [] error = "Access denied" -> "S3 file not accessible: Access denied"
      [] OTHER -> "S3 file not accessible: S3 error"

\* the recovery that leaves the request 'ready' (views.py 1246-1248 missing)
AutoRecover_NoExpire(db, jb, user, id, s3, outcome) ==
    LET db2 == NewSharedZip(db, user, db[id].retreat)
        new == Len(db2)
        t == trigger_lambda_zip_generation(db2, jb, new, outcome)
    IN  IF t.ok
        THEN OutAsked(t.reqs, t.jobs,
                      Resp("download", user, id, 202, new, NULL, NULL,
                           "regenerating"),
                      {"s3", "lambda"})
        ELSE OutAsked(Replace(t.reqs, new,
                          mark_as_failed(t.reqs[new],
                                         "Failed to trigger ZIP generation")),
                      t.jobs,
                      Resp("download", user, id, 503, 0, NULL, NULL,
                           "regeneration_failed"),
                      {"s3", "lambda"})

\* views.py 1245-1287: expire the request, create a fresh one, trigger Lambda
AutoRecover(db, jb, user, id, s3, outcome) ==
    LET db1 == Replace(db, id,
                   [db[id] EXCEPT !.status = "expired",
                                  !.error_message = NotAccessible(s3.error)])
        db2 == NewSharedZip(db1, user, db[id].retreat)
        new == Len(db2)
        t == trigger_lambda_zip_generation(db2, jb, new, outcome)
    IN  IF t.ok
        THEN OutAsked(t.reqs, t.jobs,
                      Resp("download", user, id, 202, new, NULL, NULL,
                           "regenerating"),
                      {"s3", "lambda"})
        ELSE OutAsked(Replace(t.reqs, new,
                          mark_as_failed(t.reqs[new],
                                         "Failed to trigger ZIP generation")),
                      t.jobs,
                      Resp("download", user, id, 503, 0, NULL, NULL,
                           "regeneration_failed"),
                      {"s3", "lambda"})

download_file(db, jb, user, id, kind, outcome) ==
    IF ~Owned(db, user, id)
    THEN Out(db, jb, Resp("download", user, id, 500, 0, NULL, NULL,
                          "Failed to process download request"))
    ELSE IF db[id].status # "ready"
    THEN Out(db, jb, Resp("download", user, id, 400, 0, db[id].status, NULL,
                          "Download not ready"))
    ELSE IF is_expired(db[id])
    THEN Out(Replace(db, id, [db[id] EXCEPT !.status = "expired"]), jb,
             Resp("download", user, id, 410, 0, NULL, NULL,
                  "Download has expired"))
    ELSE IF /\ db[id].s3_key # NULL
            /\ (~S3Result(kind).exists \/ ~S3Result(kind).accessible)
    THEN AutoRecover(db, jb, user, id, S3Result(kind), outcome)
    ELSE IF db[id].download_url = NULL
    THEN OutAsked(db, jb, Resp("download", user, id, 404, 0, NULL, NULL,
                               "Download URL not available"),
                  IF db[id].s3_key # NULL THEN {"s3"} ELSE {})
    ELSE OutAsked(Replace(db, id, record_download(db[id])), jb,
                  Resp("download", user, id, 200, 0, NULL,
                       db[id].download_url, "success"),
                  IF db[id].s3_key # NULL THEN {"s3"} ELSE {})

\* ------------------------------------------------------- extend_zip_lifecycle

extend_zip_lifecycle(db, jb, user, id, days) ==
    IF ~Owned(db, user, id)
    THEN Out(db, jb, Resp("extend", user, id, 500, 0, NULL, NULL,
                          "Failed to extend ZIP lifecycle"))
    ELSE IF db[id].status # "ready"
    THEN Out(db, jb, Resp("extend", user, id, 400, 0, db[id].status, NULL,
                          "Cannot extend lifecycle"))
    ELSE IF is_expired(db[id])
    THEN Out(db, jb, Resp("extend", user, id, 410, 0, NULL, NULL,
                          "Cannot extend expired ZIP"))
    ELSE IF days < MinExtendDays \/ days > MaxExtendDays
    THEN Out(db, jb, Resp("extend", user, id, 400, 0, NULL, NULL,
                          "Extension days must be between 1 and 7"))
    ELSE Out(Replace(db, id, extend_lifecycle(db[id], days)), jb,
             Resp("extend", user, id, 200, id, NULL, NULL, "success"))

\* ----------------------------------------------------------- download_webhook

\* the fan-out without the loop over the waiting requests (views.py 1442-1450)
WebhookReady_SharedOnly(db, id, p) ==
    LET db1 == update_shared_zip_info(db, id, p.s3_key, p.download_url,
                                      p.file_size)
    IN  Replace(db1, id,
            mark_as_ready(db1[id], p.download_url, p.s3_key, p.file_size))

\* views.py 1419-1450
WebhookReady(db, id, p) ==
    LET db1 == update_shared_zip_info(db, id, p.s3_key, p.download_url,
                                      p.file_size)
        db2 == Replace(db1, id,
                   mark_as_ready(db1[id], p.download_url, p.s3_key,
                                 p.file_size))
    IN  [i \in IdsOf(db2) |->
            IF /\ i # id
               /\ db2[i].retreat = db2[id].retreat
               /\ db2[i].status = "processing"
            THEN mark_as_ready(db2[i], p.download_url, p.s3_key, p.file_size)
            ELSE db2[i]]

FollowerError(error_message) ==
    IF error_message = "zip failed"
    THEN "Shared ZIP generation failed: zip failed"
    ELSE "Shared ZIP generation failed: Unknown error"

\* views.py 1492-1515
WebhookFailed(db, id, error_message) ==
    LET db1 == Replace(db, id, mark_as_failed(db[id], error_message))
    IN  [i \in IdsOf(db1) |->
            IF /\ i # id
               /\ db1[i].retreat = db1[id].retreat
               /\ db1[i].status \in {"pending", "processing"}
            THEN mark_as_failed(db1[i], FollowerError(error_message))
            ELSE db1[i]]

\* views.py 1517-1526
WebhookProcessing(db, id) == Replace(db, id, mark_as_processing(db[id]))

\* a validation that looks at download_url only
MissingReadyFields_UrlOnly(fields) == fields.download_url = NULL

\* views.py 1424: not all([download_url, s3_key, file_size])
MissingReadyFields(fields) ==
    \/ fields.download_url = NULL
    \/ fields.s3_key = NULL
    \/ fields.file_size = None \/ fields.file_size = 0

\* a callback: request_id (0: missing), status, the ready fields, the error
download_webhook(db, jb, m) ==
    IF m.request_id = 0 \/ m.status = NULL
    THEN Out(db, jb, Resp("webhook", NULL, m.request_id, 400, 0, NULL, NULL,
                          "Missing request_id or status in payload"))
    ELSE IF m.request_id \notin IdsOf(db)
    THEN Out(db, jb, Resp("webhook", NULL, m.request_id, 404, 0, NULL, NULL,
                          "Download request not found"))
    ELSE IF m.status = "ready"
    THEN IF MissingReadyFields(m.fields)
         THEN Out(db, jb, Resp("webhook", NULL, m.request_id, 400, 0, NULL,
                               NULL,
                               "Missing required fields for ready status"))
         ELSE Out(WebhookReady(db, m.request_id, m.fields), jb,
                  Resp("webhook", NULL, m.request_id, 200, 0, "ready", NULL,
                       "success"))
    ELSE IF m.status = "failed"
    THEN Out(WebhookFailed(db, m.request_id, m.error_message), jb,
             Resp("webhook", NULL, m.request_id, 200, 0, "failed", NULL,
                  "success"))
    ELSE IF m.status = "processing"
    THEN Out(WebhookProcessing(db, m.request_id), jb,
             Resp("webhook", NULL, m.request_id, 200, 0, "processing", NULL,
                  "success"))
    ELSE Out(db, jb, Resp("webhook", NULL, m.request_id, 400, 0, NULL, NULL,
                          "Invalid status"))

\* ------------------------------------------------------------------ actions

\* a request_retreat_download call in progress: the statement it is at, and
\* what it holds in its local variables existing_zip and download_request
Idle == [pc |-> "idle", zip |-> 0, zipRow |-> NewRow(NULL, NULL), row |-> 0]

InitWith(budget) ==
    /\ calls = [u \in Users |-> Idle]
    /\ reqs = << >>
    /\ jobs = {}
    /\ s3_deleted = {}
    /\ now = 0
    /\ ticks = 0
    /\ steps = budget
    /\ quiet = FALSE
    /\ resp = NoResp

Init == InitWith(MaxSteps)

\* A run is followed for as many calls as the budget says, and no further than
\* its first call that changes nothing: what can follow such a call is what
\* can follow the same tables without it.
Step ==
    /\ steps > 0
    /\ ~quiet
    /\ steps' = steps - 1

\* no counter of a row beyond the bounds
Bounded(db) ==
    /\ Len(db) <= MaxReqs
    /\ \A i \in IdsOf(db) : /\ db[i].retry_count <= MaxRetry
                            /\ db[i].download_count <= MaxDownloads

\* a call with what the object store and Lambda answer, if it asks them
ApplyAsked(o, kind, outcome) ==
    /\ Step
    /\ Bounded(o.reqs)
    /\ "s3" \notin o.asked => kind = "ok"
    /\ "lambda" \notin o.asked => outcome = "accepted"
    /\ reqs' = o.reqs
    /\ jobs' = o.jobs
    /\ resp' = [o.resp EXCEPT
                   !.s3 = IF "s3" \in o.asked THEN kind ELSE NULL,
                   !.lambda = IF "lambda" \in o.asked THEN outcome ELSE NULL]
    /\ quiet' = (o.reqs = reqs /\ o.jobs = jobs)

Apply(o) == ApplyAsked(o, "ok", "accepted")

RequestRetreatDownload(user, retreat, outcome) ==
    /\ \E zip \in ZipChoices(AfterSweep(reqs, user, retreat), retreat) :
          ApplyAsked(request_retreat_download(reqs, jobs, user, retreat, zip,
                                              outcome), "ok", outcome)
    /\ UNCHANGED <<s3_deleted, now, ticks, calls>>

DownloadRequestStatus(user, id) ==
    /\ Apply(download_request_status(reqs, jobs, user, id))
    /\ UNCHANGED <<s3_deleted, now, ticks, calls>>

DownloadFile(user, id, kind, outcome) ==
    /\ Owned(reqs, user, id) => kind \in S3Kinds(reqs[id].s3_key, s3_deleted)
    /\ ApplyAsked(download_file(reqs, jobs, user, id, kind, outcome),
                  kind, outcome)
    /\ UNCHANGED <<s3_deleted, now, ticks, calls>>

ExtendZipLifecycle(user, id, days) ==
    /\ Apply(extend_zip_lifecycle(reqs, jobs, user, id, days))
    /\ UNCHANGED <<s3_deleted, now, ticks, calls>>

DownloadWebhook(m) ==
    /\ Apply(download_webhook(reqs, jobs, m))
    /\ UNCHANGED <<s3_deleted, now, ticks, calls>>

\* the periodic DownloadRequest.cleanup_expired()
CleanupExpired ==
    /\ Step
    /\ reqs' = cleanup_expired(reqs)
    /\ s3_deleted' = s3_deleted \cup CleanupDeletedKeys(reqs)
    /\ quiet' = (ExpiredRows(reqs) = {})
    /\ resp' = Resp("cleanup", NULL, 0, 0, 0, NULL, NULL, "")
    /\ UNCHANGED <<jobs, now, ticks, calls>>

\* an archive disappears from the bucket out of band
S3ObjectLost(key) ==
    /\ Step
    /\ key \notin s3_deleted
    /\ \E i \in Ids : reqs[i].s3_key = key
    /\ s3_deleted' = s3_deleted \cup {key}
    /\ quiet' = FALSE
    /\ resp' = Resp("s3lost", NULL, 0, 0, 0, NULL, NULL, "")
    /\ UNCHANGED <<reqs, jobs, now, ticks, calls>>

\* the clock moves on
Tick(d) ==
    /\ Step
    /\ ticks < MaxTicks
    /\ now' = now + d
    /\ ticks' = ticks + 1
    /\ quiet' = FALSE
    /\ resp' = Resp("tick", NULL, 0, 0, 0, NULL, NULL, "")
    /\ UNCHANGED <<reqs, jobs, s3_deleted, calls>>

\* ---------------------------------------------------------- the environment

\* the requests a client asks about: its own, and one that is not its own
ProbeIds(user) ==
    { i \in Ids : reqs[i].user = user } \cup {Len(reqs) + 1}

ExtendInputs == {0, 7, 8}
S3AllKinds == {"ok", "not_found", "denied", "error"}
Keys == { p.s3_key : p \in Payloads }

NoFields == [s3_key |-> NULL, download_url |-> NULL, file_size |-> None]

Callback(id, status, fields, error_message) ==
    [request_id |-> id, status |-> status, fields |-> fields,
     error_message |-> error_message]

\* what the worker sends about the jobs it was given: progress, the archive
\* it built, a failure
WorkerCallbacks ==
    { Callback(id, "ready", PayloadOf(id), NULL) : id \in jobs }
    \cup { Callback(id, "failed", NoFields, e) :
              id \in jobs, e \in WorkerErrors }
    \cup { Callback(id, "processing", NoFields, NULL) : id \in jobs }

\* callbacks the handler rejects
BadCallbacks ==
    { Callback(id, "ready", NoFields, NULL) : id \in jobs }
    \cup { Callback(id, "pending", NoFields, NULL) : id \in jobs }
    \cup { Callback(0, "ready", NoFields, NULL),
           Callback(Len(reqs) + 1, "failed", NoFields, "zip failed") }

Next ==
    \/ \E u \in Users, r \in Retreats, o \in LambdaOutcomes :
          RequestRetreatDownload(u, r, o)
    \/ \E u \in Users : \E id \in ProbeIds(u) : DownloadRequestStatus(u, id)
    \/ \E u \in Users : \E id \in ProbeIds(u) :
          \E k \in S3AllKinds, o \in LambdaOutcomes : DownloadFile(u, id, k, o)
    \/ \E u \in Users : \E id \in ProbeIds(u) :
          \E d \in ExtendInputs : ExtendZipLifecycle(u, id, d)
    \/ \E m \in WorkerCallbacks \cup BadCallbacks : DownloadWebhook(m)
    \/ CleanupExpired
    \/ \E k \in Keys : S3ObjectLost(k)
    \/ \E d \in TickSizes : Tick(d)

Spec == Init /\ [][Next]_vars

\* ------------------------------------------- the cooperative environment
\* Clients ask about their own requests, Lambda accepts every job, the worker
\* reports each job ready or failed, the object store answers truthfully,
\* the periodic cleanup runs, and the clock moves past the 48-hour expiry.

OwnIds(user) == { i \in Ids : reqs[i].user = user }

S3Truthful == {"ok", "not_found"}

Outcomes == { m \in WorkerCallbacks : m.status \in {"ready", "failed"} }

LongInit == InitWith(MaxLongSteps)

LongNext ==
    \/ \E u \in Users, r \in Retreats : RequestRetreatDownload(u, r, "accepted")
    \/ \E u \in Users : \E id \in OwnIds(u) :
          \E k \in S3Truthful : DownloadFile(u, id, k, "accepted")
    \/ \E u \in Users : \E id \in OwnIds(u) :
          ExtendZipLifecycle(u, id, MaxExtendDays)
    \/ \E m \in Outcomes : DownloadWebhook(m)
    \/ \E k \in Keys : S3ObjectLost(k)
    \/ CleanupExpired
    \/ Tick(ExpiryMinutes + 1)

SpecLong == LongInit /\ [][LongNext]_vars

\* --------------------------------------------- generation under polling
\* Requests, status polls, the worker's callbacks and a clock that moves past
\* the 30-minute processing limit.

PollInit == InitWith(MaxPollSteps)

PollNext ==
    \/ \E u \in Users, r \in Retreats, o \in LambdaOutcomes :
          RequestRetreatDownload(u, r, o)
    \/ \E u \in Users : \E id \in OwnIds(u) : DownloadRequestStatus(u, id)
    \/ \E m \in WorkerCallbacks : DownloadWebhook(m)
    \/ Tick(StuckMinutes + 1)

SpecPoll == PollInit /\ [][PollNext]_vars

\* ------------------------------- request_retreat_download, call by call
\* The view runs without a transaction or row lock (views.py 953-1075): each
\* query and each save is a statement of its own, and the statements of two
\* calls interleave.

At(u, pc) == calls[u].pc = pc

Goto(u, pc) == calls' = [calls EXCEPT ![u].pc = pc]

\* views.py 963-991: the access check and the existing_request query
ReadExisting(u, r) ==
    /\ At(u, "idle")
    /\ u \in Attended
    /\ LET ex == ExistingRequests(reqs, u, r)
       IN  IF ex # {} /\ ~is_expired(reqs[Newest(ex)])
           THEN /\ Goto(u, "done")
                /\ resp' = Resp("request", u, 0, 200, Newest(ex),
                                reqs[Newest(ex)].status, NULL,
                                "Download request already exists")
                /\ reqs' = reqs
           ELSE /\ Goto(u, "stuck")
                /\ resp' = resp
                /\ reqs' = IF ex # {}
                           THEN Replace(reqs, Newest(ex),
                                    [reqs[Newest(ex)] EXCEPT
                                        !.status = "expired"])
                           ELSE reqs
    /\ UNCHANGED <<jobs, s3_deleted, now, ticks, steps, quiet>>

\* views.py 993-1002: the stuck_requests query and its mark_as_failed calls
SweepStuckRequests(u, r) ==
    /\ At(u, "stuck")
    /\ reqs' = SweepStuck(reqs, r)
    /\ Goto(u, "active")
    /\ UNCHANGED <<jobs, s3_deleted, now, ticks, steps, quiet, resp>>

\* views.py 1004-1008: the active_generation query
ReadActiveGeneration(u, r) ==
    /\ At(u, "active")
    /\ Goto(u, IF ActiveGenerations(reqs, r) # {} THEN "join" ELSE "zip")
    /\ UNCHANGED <<reqs, jobs, s3_deleted, now, ticks, steps, quiet, resp>>

\* views.py 1010-1027: the follower row and the answer
CreateFollower(u, r) ==
    /\ At(u, "join")
    /\ reqs' = JoinGeneration(reqs, jobs, u, r).reqs
    /\ resp' = JoinGeneration(reqs, jobs, u, r).resp
    /\ Goto(u, "done")
    /\ UNCHANGED <<jobs, s3_deleted, now, ticks, steps, quiet>>

\* views.py 1030: existing_zip = find_existing_shared_zip(retreat)
ReadSharedZip(u, r) ==
    /\ At(u, "zip")
    /\ \E zip \in ZipChoices(reqs, r) :
          calls' = [calls EXCEPT
                       ![u].pc = "create",
                       ![u].zip = zip,
                       ![u].zipRow = IF zip = 0 THEN Idle.zipRow
                                     ELSE reqs[zip]]
    /\ UNCHANGED <<reqs, jobs, s3_deleted, now, ticks, steps, quiet, resp>>

\* views.py 1032-1048: create_shared_zip_request with or without existing_zip
CreateSharedZipRequest(u, r) ==
    /\ At(u, "create")
    /\ IF calls[u].zip # 0
       THEN /\ reqs' = FastPath(reqs, jobs, u, r, calls[u].zip,
                                calls[u].zipRow).reqs
            /\ resp' = FastPath(reqs, jobs, u, r, calls[u].zip,
                                calls[u].zipRow).resp
            /\ Goto(u, "done")
       ELSE /\ reqs' = NewSharedZip(reqs, u, r)
            /\ resp' = resp
            /\ calls' = [calls EXCEPT ![u].pc = "trigger",
                                      ![u].row = Len(reqs) + 1]
    /\ UNCHANGED <<jobs, s3_deleted, now, ticks, steps, quiet>>

\* views.py 1050-1068: trigger_lambda_zip_generation and the answer
TriggerLambda(u, outcome) ==
    /\ At(u, "trigger")
    /\ LET id == calls[u].row
           t == trigger_lambda_zip_generation(reqs, jobs, id, outcome)
       IN  /\ jobs' = t.jobs
           /\ reqs' = IF t.ok THEN t.reqs
                      ELSE Replace(t.reqs, id,
                               mark_as_failed(t.reqs[id],
                                   "Failed to start Lambda function"))
           /\ resp' = [(IF t.ok
                        THEN Resp("request", u, 0, 201, id, t.reqs[id].status,
                                  NULL, "ZIP generation started")
                        ELSE Resp("request", u, 0, 500, 0, NULL, NULL,
                                  "Failed to start ZIP generation"))
                          EXCEPT !.lambda = outcome]
    /\ Goto(u, "done")
    /\ UNCHANGED <<s3_deleted, now, ticks, steps, quiet>>

ConcInit == InitWith(0)

ConcNext ==
    \/ \E u \in Users, r \in Retreats : ReadExisting(u, r)
    \/ \E u \in Users, r \in Retreats : SweepStuckRequests(u, r)
    \/ \E u \in Users, r \in Retreats : ReadActiveGeneration(u, r)
    \/ \E u \in Users, r \in Retreats : CreateFollower(u, r)
    \/ \E u \in Users, r \in Retreats : ReadSharedZip(u, r)
    \/ \E u \in Users, r \in Retreats : CreateSharedZipRequest(u, r)
    \/ \E u \in Users, o \in LambdaOutcomes : TriggerLambda(u, o)

SpecConc == ConcInit /\ [][ConcNext]_vars

\* ------------------------------------- callbacks and polls between statements
\* The statements of concurrent request_retreat_download calls, with the
\* worker's callback and the owners' status polls arriving between them.

LateInit == InitWith(MaxLateSteps)

LateNext ==
    \/ ConcNext
    \/ \E m \in Outcomes : DownloadWebhook(m)
    \/ \E u \in Users : \E id \in OwnIds(u) : DownloadRequestStatus(u, id)

SpecLate == LateInit /\ [][LateNext]_vars

\* ------------------------------------------------ a worker that never answers
\* Requests with every Lambda outcome and the periodic cleanup, within the
\* budget of calls; no callback ever arrives.  Owners poll their requests as
\* often as they like, and the clock moves past the deadline of a request
\* that is still waiting: 30 minutes after processing_started_at, or its
\* expires_at.

WaitingStatuses == {"pending", "processing"}

\* the request is processing and its 30 minutes are not over
StuckAhead(r) ==
    /\ r.status = "processing"
    /\ r.processing_started_at # None
    /\ now - r.processing_started_at <= StuckMinutes

\* the request is waiting and its expires_at has not passed
ExpiryAhead(r) ==
    /\ r.status \in WaitingStatuses
    /\ r.expires_at # None
    /\ ~is_expired(r)

\* the clock moves by d past a deadline that is still ahead
DeadlineTick(d) ==
    /\ \E i \in Ids :
          \/ (d = StuckMinutes + 1) /\ StuckAhead(reqs[i])
          \/ (d = ExpiryMinutes + 1) /\ ExpiryAhead(reqs[i])
    /\ now' = now + d
    /\ resp' = Resp("tick", NULL, 0, 0, 0, NULL, NULL, "")
    /\ UNCHANGED <<reqs, jobs, s3_deleted, ticks, steps, quiet, calls>>

\* the owner's poll of download_request_status, as often as the owner likes
PollOwn(user, id) ==
    /\ id \in OwnIds(user)
    /\ LET o == download_request_status(reqs, jobs, user, id)
       IN  /\ reqs' = o.reqs
           /\ jobs' = o.jobs
           /\ resp' = o.resp
    /\ UNCHANGED <<s3_deleted, now, ticks, steps, quiet, calls>>

LiveInit == InitWith(MaxLiveSteps)

LiveNext ==
    \/ \E u \in Users, r \in Retreats, o \in LambdaOutcomes :
          RequestRetreatDownload(u, r, o)
    \/ CleanupExpired
    \/ \E u \in Users : \E id \in Ids : PollOwn(u, id)
    \/ \E d \in TickSizes : DeadlineTick(d)

\* the owner keeps polling and time advances
LiveFairness ==
    /\ \A d \in TickSizes : WF_vars(DeadlineTick(d))
    /\ \A u \in Users : \A id \in 1..MaxReqs : WF_vars(PollOwn(u, id))

SpecLive == LiveInit /\ [][LiveNext]_vars /\ LiveFairness

\* --------------------------------------------------------------- properties

SameRetreat(db, i, j) == db[i].retreat = db[j].retreat

Carries(r, p) ==
    /\ r.s3_key = p.s3_key
    /\ r.download_url = p.download_url
    /\ r.file_size = p.file_size

\* the step is an accepted 'ready' callback
ReadyCallbackStep ==
    /\ resp'.op = "webhook"
    /\ resp'.code = 200
    /\ resp'.status = "ready"

\* C2: when download_webhook handles 'ready' for a request of a retreat, then
\* on return that request and every other request of the retreat that was
\* pending or processing are 'ready' and carry the payload's s3_key,
\* download_url and file_size.
ReadyFanOut ==
    [][ReadyCallbackStep =>
          \A i \in Ids :
              (i = resp'.arg \/ (/\ SameRetreat(reqs, i, resp'.arg)
                                 /\ reqs[i].status \in InFlight))
              => /\ reqs'[i].status = "ready"
                 /\ Carries(reqs'[i], PayloadOf(resp'.arg))]_vars

\* a 'ready' callback has just made a waiting follower ready
ReadyFanOutWitness ==
    /\ resp.op = "webhook" /\ resp.code = 200 /\ resp.status = "ready"
    /\ \E i \in Ids : /\ i # resp.arg
                      /\ ~reqs[i].is_shared
                      /\ reqs[i].status = "ready"
                      /\ Carries(reqs[i], PayloadOf(resp.arg))

\* a row created by create_shared_zip_request triggers, or reuses, an archive;
\* a row created by joining a generation waits for one
IsPrimary(r) == r.is_shared
IsFollower(r) == ~r.is_shared

\* C3: once a primary request reaches 'ready' or 'failed', by whatever
\* operation, every follower of the retreat that is waiting gets the same
\* terminal status with matching fields.
FanOutComplete ==
    [][\A p \in Ids :
          (/\ IsPrimary(reqs[p])
           /\ reqs[p].status \in InFlight
           /\ reqs'[p].status \in {"ready", "failed"})
          => \A f \in Ids :
                (/\ f # p
                 /\ SameRetreat(reqs, f, p)
                 /\ IsFollower(reqs[f])
                 /\ reqs[f].status \in InFlight)
                => /\ reqs'[f].status = reqs'[p].status
                   /\ reqs'[p].status = "ready"
                         => Carries(reqs'[f], reqs'[p])
                   /\ reqs'[p].status = "failed"
                         => reqs'[f].error_message =
                               FollowerError(reqs'[p].error_message)]_vars

\* the worker's callback repeats what the addressed request already holds
Redelivery ==
    /\ resp'.op = "webhook"
    /\ resp'.code = 200
    /\ \/ /\ resp'.status = "ready"
          /\ reqs[resp'.arg].status = "ready"
          /\ Carries(reqs[resp'.arg], PayloadOf(resp'.arg))
       \/ /\ resp'.status = "failed"
          /\ reqs[resp'.arg].status = "failed"
          /\ reqs[resp'.arg].error_message \in WorkerErrors

\* C4: a 'ready' or 'failed' callback for a request that is already in that
\* terminal state changes no DownloadRequest record.
TerminalCallbackIsNoOp == [][Redelivery => reqs' = reqs]_vars

\* the caller's requests that are pending, processing or ready and not expired
LiveRequests(db, user, retreat) ==
    { i \in ExistingRequests(db, user, retreat) : ~is_expired(db[i]) }

\* the step is a request-download call that took the fast path
FastPathStep ==
    /\ resp'.op = "request"
    /\ resp'.message = "Download ready (using existing ZIP)"

\* C6: with a ready, unexpired, shared request and nothing pending or
\* processing for the retreat, request_retreat_download by a user without a
\* live request creates a request that is 'ready' with the existing
\* artifact's s3_key, download_url and file_size, and submits no job.
FastPathServes ==
    [][\A r \in Retreats :
          (/\ resp'.op = "request"
           /\ resp'.user \in Attended
           /\ SharedZips(reqs, r) # {}
           /\ ActiveGenerations(reqs, r) = {}
           /\ LiveRequests(reqs, resp'.user, r) = {})
          => /\ Len(reqs') = Len(reqs) + 1
             /\ reqs'[Len(reqs')].user = resp'.user
             /\ reqs'[Len(reqs')].status = "ready"
             /\ \E z \in SharedZips(reqs, r) :
                   Carries(reqs'[Len(reqs')], reqs[z])
             /\ reqs'[Len(reqs')].s3_key # NULL
             /\ reqs'[Len(reqs')].download_url # NULL
             /\ reqs'[Len(reqs')].file_size # None
             /\ jobs' = jobs
             /\ resp'.code = 201
             /\ resp'.request_id = Len(reqs')
             /\ resp'.status = "ready"]_vars

\* the last call took the fast path and its new row is ready with an archive
FastPathServesWitness ==
    /\ resp.op = "request"
    /\ resp.message = "Download ready (using existing ZIP)"
    /\ reqs[Len(reqs)].status = "ready"
    /\ reqs[Len(reqs)].s3_key \in Keys

\* C7: expires_at of a request never decreases, and a call that changes it
\* leaves it at most 14 days after the time of the call.
LifecycleMonotone ==
    [][\A i \in Ids :
          /\ reqs'[i].expires_at >= reqs[i].expires_at
          /\ reqs'[i].expires_at # reqs[i].expires_at
                => reqs'[i].expires_at
                      <= now + MaxLifecycleDays * DayMinutes]_vars

\* an extension through the endpoint has just been cut at the 14-day cap
LifecycleMonotoneWitness ==
    /\ resp.op = "extend" /\ resp.code = 200
    /\ reqs[resp.arg].expires_at = now + MaxLifecycleDays * DayMinutes

\* the fast path reused zip z: the new row copies it, its expiry becomes e(T),
\* and no other expiry moves
Reused(z, expiry) ==
    /\ Carries(reqs'[Len(reqs')], reqs[z])
    /\ reqs'[Len(reqs')].expires_at = reqs[z].expires_at
    /\ reqs'[z].expires_at = expiry
    /\ \A j \in Ids \ {z} : reqs'[j].expires_at = reqs[j].expires_at

\* C8 as stated: after the fast path the shared artifact's expires_at is
\* max(T, now + 2 days), capped at now + 14 days.
FastPathExpiryMax ==
    [][FastPathStep =>
          \E z \in UNION { SharedZips(reqs, r) : r \in Retreats } :
              Reused(z, Min(Max(reqs[z].expires_at,
                                now + DefaultExtendDays * DayMinutes),
                            now + MaxLifecycleDays * DayMinutes))]_vars

\* C8 amended: after the fast path the shared artifact's expires_at is
\* T + 2 days, capped at now + 14 days.
FastPathExpiryAdd ==
    [][FastPathStep =>
          \E z \in UNION { SharedZips(reqs, r) : r \in Retreats } :
              Reused(z, Min(reqs[z].expires_at
                               + DefaultExtendDays * DayMinutes,
                            now + MaxLifecycleDays * DayMinutes))]_vars

\* the fast path has just run: the new row holds T, a shared zip T + 2 days
FastPathExpiryWitness ==
    /\ resp.op = "request"
    /\ resp.message = "Download ready (using existing ZIP)"
    /\ \E z \in Ids \ {Len(reqs)} :
          /\ reqs[z].is_shared
          /\ reqs[z].expires_at =
                reqs[Len(reqs)].expires_at + DefaultExtendDays * DayMinutes

\* the step is download_file on a ready, unexpired request whose object the
\* store reports as not found
MissingObjectStep ==
    /\ resp'.op = "download"
    /\ resp'.s3 = "not_found"

\* no link, no download counted, and the request is now expired
NothingServed ==
    /\ resp'.download_url = NULL
    /\ reqs'[resp'.arg].download_count = reqs[resp'.arg].download_count
    /\ reqs'[resp'.arg].download_url = reqs[resp'.arg].download_url
    /\ reqs'[resp'.arg].status = "expired"
    /\ Len(reqs') = Len(reqs) + 1
    /\ reqs'[Len(reqs')].user = resp'.user

\* C9 as stated: the call serves nothing, expires the request and answers
\* 202 'regenerating' with the id of a newly created request.
AutoRecoverRegenerates ==
    [][MissingObjectStep =>
          /\ NothingServed
          /\ resp'.code = 202
          /\ resp'.request_id = Len(reqs')]_vars

\* C9 amended: the call serves nothing and expires the request; it answers
\* 202 'regenerating' with the id of the new request when the job for it was
\* accepted, and 503 when the submission failed.
AutoRecoverNeverStale ==
    [][MissingObjectStep =>
          /\ NothingServed
          /\ resp'.lambda = "accepted"
                => resp'.code = 202 /\ resp'.request_id = Len(reqs')
          /\ resp'.lambda # "accepted" => resp'.code = 503]_vars

\* a download has just found its object missing and is regenerating
AutoRecoverWitness ==
    /\ resp.op = "download" /\ resp.s3 = "not_found" /\ resp.code = 202
    /\ reqs[resp.arg].status = "expired"
    /\ reqs[resp.request_id].status = "pending"
    /\ resp.request_id \in jobs

\* every call that was started has returned
AllReturned ==
    /\ \A u \in Users : calls[u].pc \in {"idle", "done"}
    /\ \E u \in Users : calls[u].pc = "done"

\* C1: when the calls of distinct attending users for a fresh retreat
\* interleave, the Lambda is invoked for one request only, and once all calls
\* have returned without a Lambda error there is exactly one job and every
\* other request is a follower.
DedupUnderConcurrency ==
    /\ Cardinality(jobs) <= 1
    /\ (AllReturned /\ \A i \in Ids : reqs[i].status # "failed")
          => /\ Cardinality(jobs) = 1
             /\ \A i \in Ids \ jobs : IsFollower(reqs[i])

\* C5: when the caller has a pending, processing or ready request for the
\* retreat that is not expired, request_retreat_download answers with the id
\* and status of such a request, creates no row, changes no row and submits
\* no job.
IdempotentReRequest ==
    [][\A r \in Retreats :
          (/\ resp'.op = "request"
           /\ LiveRequests(reqs, resp'.user, r) # {})
          => /\ reqs' = reqs
             /\ jobs' = jobs
             /\ resp'.code = 200
             /\ resp'.request_id \in LiveRequests(reqs, resp'.user, r)
             /\ resp'.status = reqs[resp'.request_id].status]_vars

\* C10: when download_file finds the object missing, the new request is a
\* follower and no job is submitted if a request of the retreat is pending
\* or processing; otherwise it is one new primary with one job.
AutoRecoverRespectsDedup ==
    [][MissingObjectStep =>
          /\ Len(reqs') = Len(reqs) + 1
          /\ IF ActiveGenerations(reqs, reqs[resp'.arg].retreat) # {}
             THEN /\ IsFollower(reqs'[Len(reqs')])
                  /\ jobs' = jobs
             ELSE /\ IsPrimary(reqs'[Len(reqs')])
                  /\ resp'.lambda = "accepted"
                        => jobs' = jobs \cup {Len(reqs')}]_vars

\* the step is download_file asking the object store about the archive of a
\* ready, unexpired request
StoreCheckStep == resp'.op = "download" /\ resp'.s3 # NULL

\* C11: when the object-store check reports access denied or a transient
\* error, download_file does not mark the request expired, creates no request
\* and submits no job; a request is regenerated only on 'not found'.
OnlyNotFoundRegenerates ==
    [][StoreCheckStep =>
          /\ resp'.s3 \in {"denied", "error"}
                => /\ reqs'[resp'.arg].status # "expired"
                   /\ Len(reqs') = Len(reqs)
                   /\ jobs' = jobs
          /\ (Len(reqs') > Len(reqs) \/ jobs' # jobs)
                => resp'.s3 = "not_found"]_vars

\* the step is a request_retreat_download call that gets past the answer for
\* an existing live request, and so runs the stuck sweep
SweepingRequestStep(r) ==
    /\ resp'.op = "request"
    /\ resp'.user \in Attended
    /\ LiveRequests(reqs, resp'.user, r) = {}

\* the call made the caller a follower
JoinedGeneration ==
    /\ Len(reqs') = Len(reqs) + 1
    /\ IsFollower(reqs'[Len(reqs')])

\* C12: a request_retreat_download call that runs the sweep leaves every
\* 'processing' request of the retreat that started more than 30 minutes ago
\* 'failed', and makes the caller a follower only of a request that was not
\* swept.
StuckSweep ==
    [][\A r \in Retreats :
          SweepingRequestStep(r)
          => /\ \A i \in StuckRequests(reqs, r) : reqs'[i].status = "failed"
             /\ JoinedGeneration
                   => ActiveGenerations(reqs, r) \ StuckRequests(reqs, r)
                         # {}]_vars

LambdaFailures == LambdaOutcomes \ {"accepted"}

\* the step is a call whose job submission failed or was refused
SubmissionFailedStep ==
    /\ resp'.op \in {"request", "download"}
    /\ resp'.lambda \in LambdaFailures

\* C13: when the submission of a job fails or is refused, in
\* request_retreat_download or in the auto-recovery of download_file, the
\* request the job was for is 'failed' with a non-empty error_message when the
\* call returns, no job is recorded, and the caller gets a 5xx answer.
SubmissionFailureNotSilent ==
    [][SubmissionFailedStep =>
          /\ Len(reqs') = Len(reqs) + 1
          /\ reqs'[Len(reqs')].user = resp'.user
          /\ reqs'[Len(reqs')].status = "failed"
          /\ reqs'[Len(reqs')].error_message # ""
          /\ jobs' = jobs
          /\ resp'.code >= 500 /\ resp'.code <= 599]_vars

\* an auto-recovery has just failed to submit its job
SubmissionFailureWitness ==
    /\ resp.op = "download" /\ resp.lambda \in LambdaFailures
    /\ resp.code = 503
    /\ reqs[Len(reqs)].status = "failed"
    /\ reqs[resp.arg].status = "expired"

\* the download step handed out a link, or counted a download
Served == resp'.download_url # NULL

Counted(i) == reqs'[i].download_count # reqs[i].download_count

\* C14: download_file returns a URL and records a download only for a request
\* that is 'ready', not expired, and whose object the store reported as
\* existing and accessible; for any other status or an expired request it
\* returns no URL and counts nothing, and it marks an expired ready request
\* 'expired'.
LinkGating ==
    [][resp'.op = "download" =>
          /\ Served
                => /\ Owned(reqs, resp'.user, resp'.arg)
                   /\ resp'.download_url = reqs[resp'.arg].download_url
          /\ \A i \in Ids :
                /\ Counted(i) => i = resp'.arg /\ Served
                /\ (i = resp'.arg /\ (Served \/ Counted(i)))
                      => /\ reqs[i].status = "ready"
                         /\ ~is_expired(reqs[i])
                         /\ resp'.s3 = "ok"
                /\ (i = resp'.arg /\ reqs[i].user = resp'.user
                    /\ reqs[i].status = "ready" /\ is_expired(reqs[i]))
                      => /\ reqs'[i].status = "expired"
                         /\ resp'.code = 410]_vars

\* a link has just been handed out after a successful store check
LinkGatingWitness ==
    /\ resp.op = "download" /\ resp.code = 200 /\ resp.s3 = "ok"
    /\ resp.download_url \in { p.download_url : p \in Payloads }
    /\ reqs[resp.arg].download_count > 0

\* the requests that are ready, unexpired and point at key
LiveReferences(db, key) ==
    { i \in IdsOf(db) : /\ db[i].status = "ready"
                        /\ ~is_expired(db[i])
                        /\ db[i].s3_key = key }

\* C15: whenever cleanup_expired deletes an S3 key, no request that is
\* 'ready' and unexpired still references that key.
ObjectsOutliveRequests ==
    [][resp'.op = "cleanup" =>
          \A key \in CleanupDeletedKeys(reqs) :
              LiveReferences(reqs', key) = {}]_vars

\* payloads the handler must reject, for the rows as they are
AnyStatus == {"ready", "failed", "processing", "pending", NULL}

IncompleteFields ==
    { NoFields }
    \cup { [p EXCEPT !.download_url = NULL] : p \in Payloads }
    \cup { [p EXCEPT !.s3_key = NULL] : p \in Payloads }
    \cup { [p EXCEPT !.file_size = None] : p \in Payloads }

MissingIdOrStatus ==
    { Callback(0, st, f, NULL) : st \in AnyStatus, f \in Payloads }
    \cup { Callback(id, NULL, f, NULL) :
              id \in 1..(Len(reqs) + 1), f \in Payloads }

UnknownRequest ==
    { Callback(Len(reqs) + 1, st, f, NULL) :
         st \in AnyStatus \ {NULL}, f \in Payloads \cup {NoFields} }

IncompleteReady ==
    { Callback(id, "ready", f, NULL) : id \in Ids, f \in IncompleteFields }

UnrecognisedStatus ==
    { Callback(id, st, f, NULL) :
         id \in Ids, st \in {"pending", "expired", "done"}, f \in Payloads }

\* the handler answers m with code and touches neither rows nor jobs
Rejects(m, code) ==
    /\ download_webhook(reqs, jobs, m).resp.code = code
    /\ download_webhook(reqs, jobs, m).reqs = reqs
    /\ download_webhook(reqs, jobs, m).jobs = jobs

\* C16: download_webhook answers 404 for an unknown request_id and 400 for a
\* payload without request_id or status, for a 'ready' payload without
\* download_url, s3_key or file_size, and for an unrecognised status, and in
\* each case modifies no DownloadRequest.
RejectedCallbacksChangeNothing ==
    /\ \A m \in MissingIdOrStatus : Rejects(m, 400)
    /\ \A m \in UnknownRequest : Rejects(m, 404)
    /\ \A m \in IncompleteReady : Rejects(m, 400)
    /\ \A m \in UnrecognisedStatus : Rejects(m, 400)

\* an incomplete 'ready' callback has just been rejected while a request of
\* its retreat was waiting
RejectedCallbackWitness ==
    /\ resp.op = "webhook" /\ resp.code = 400
    /\ resp.message = "Missing required fields for ready status"
    /\ resp.arg \in Ids
    /\ reqs[resp.arg].status \in InFlight

ClientEndpoints == {"request", "status", "download", "extend"}

\* the call names a retreat the caller did not attend, or a request that does
\* not exist or is not the caller's
NotFoundCall ==
    \/ resp'.op = "request" /\ resp'.user \notin Attended
    \/ /\ resp'.op \in {"status", "download", "extend"}
       /\ ~Owned(reqs, resp'.user, resp'.arg)

\* C17: on the client endpoints a call for something the caller cannot see
\* is answered 4xx, and 5xx is answered only when a job submission failed.
ResponseClasses ==
    [][resp'.op \in ClientEndpoints =>
          /\ NotFoundCall => resp'.code >= 400 /\ resp'.code <= 499
          /\ resp'.code >= 500 => resp'.lambda \in LambdaFailures]_vars

\* requests of other users for the retreat that are pending or processing
\* and that the stuck sweep leaves alone
OthersInFlight(db, user, retreat) ==
    { i \in ActiveGenerations(db, retreat) \ StuckRequests(db, retreat) :
         db[i].user # user }

\* C18: when request_retreat_download runs for a user without a live request
\* while a request of another user for the retreat is pending or processing
\* after the stuck sweep, it creates exactly one request, in status
\* 'processing', returns it at once, and submits no job.
FollowerCreation ==
    [][\A r \in Retreats :
          (/\ SweepingRequestStep(r)
           /\ OthersInFlight(reqs, resp'.user, r) # {})
          => /\ Len(reqs') = Len(reqs) + 1
             /\ reqs'[Len(reqs')].user = resp'.user
             /\ reqs'[Len(reqs')].retreat = r
             /\ reqs'[Len(reqs')].status = "processing"
             /\ jobs' = jobs
             /\ resp'.lambda = NULL
             /\ resp'.code = 201
             /\ resp'.request_id = Len(reqs')
             /\ resp'.status = "processing"]_vars

\* a caller has just been made a follower of another user's generation
FollowerCreationWitness ==
    /\ resp.op = "request"
    /\ resp.message = "ZIP generation already in progress"
    /\ resp.request_id = Len(reqs)
    /\ reqs[Len(reqs)].status = "processing"
    /\ \E i \in Ids : reqs[i].user # resp.user /\ reqs[i].status \in InFlight

\* C19: no operation moves a ready, failed or expired request back to pending
\* or processing, none moves a failed or expired request to ready, and none
\* moves an expired request to another status.
StatusForward ==
    [][\A i \in Ids :
          /\ reqs[i].status \in {"ready", "failed", "expired"}
                => reqs'[i].status \notin {"pending", "processing"}
          /\ reqs[i].status \in {"failed", "expired"}
                => reqs'[i].status # "ready"
          /\ reqs[i].status = "expired"
                => reqs'[i].status = "expired"]_vars

\* request i is set to 'expired' in the step
Expires(i) == reqs[i].status # "expired" /\ reqs'[i].status = "expired"

\* C20: a request becomes 'expired' only from 'ready' or 'failed' and only in
\* cleanup_expired: request_retreat_download, download_request_status and
\* download_file set no request to 'expired', and no pending or processing
\* request is ever set to 'expired'.
ExpiryOnlyBySweep ==
    [][\A i \in Ids :
          Expires(i) => /\ reqs[i].status \in {"ready", "failed"}
                        /\ resp'.op = "cleanup"]_vars

\* primaries whose job was submitted more than 30 minutes ago and has sent no
\* callback: still pending, and created (48 hours before expires_at) more than
\* StuckMinutes ago
Abandoned(db, jb, retreat) ==
    { i \in IdsOf(db) \cap jb :
         /\ db[i].retreat = retreat
         /\ db[i].status = "pending"
         /\ db[i].expires_at - ExpiryMinutes < now - StuckMinutes }

\* every generation in flight for the retreat is an abandoned one: abandoned
\* primaries and the followers waiting behind them
OnlyAbandoned(db, jb, retreat) ==
    /\ Abandoned(db, jb, retreat) # {}
    /\ \A i \in ActiveGenerations(db, retreat) :
          i \in Abandoned(db, jb, retreat) \/ IsFollower(db[i])

\* C21: a request_retreat_download arriving more than 30 minutes after the
\* submission of a job that never called back is not made a follower of that
\* generation.
CrashedJobBlocksBounded ==
    [][\A r \in Retreats :
          (SweepingRequestStep(r) /\ OnlyAbandoned(reqs, jobs, r))
          => ~JoinedGeneration]_vars

\* the primaries of the retreat of request i whose archive is ready
ReadyPrimaries(db, jb, i) ==
    { p \in IdsOf(db) \cap jb : /\ SameRetreat(db, p, i)
                                /\ IsPrimary(db[p])
                                /\ db[p].status = "ready"
                                /\ ~is_expired(db[p]) }

\* the step is the owner's poll of a follower that still waits, within its
\* 30 minutes, although the primary's archive is ready
LateFollowerPoll ==
    /\ resp'.op = "status"
    /\ calls' = calls
    /\ Owned(reqs, resp'.user, resp'.arg)
    /\ IsFollower(reqs[resp'.arg])
    /\ reqs[resp'.arg].status = "processing"
    /\ now - reqs[resp'.arg].processing_started_at <= StuckMinutes
    /\ ReadyPrimaries(reqs, jobs, resp'.arg) # {}

\* C22: a follower whose row was inserted after the primary's 'ready'
\* callback was processed is completed by its next status poll: the poll
\* reports it 'ready' and the row carries the archive's fields.
LateFollowerCompletes ==
    [][LateFollowerPoll =>
          /\ resp'.status = "ready"
          /\ reqs'[resp'.arg].status = "ready"
          /\ \E p \in ReadyPrimaries(reqs, jobs, resp'.arg) :
                Carries(reqs'[resp'.arg], reqs[p])]_vars

\* the step is a request-download call that started a new generation and
\* whose job the Lambda invoke accepted
SubmittedStep ==
    /\ resp'.op = "request"
    /\ resp'.message = "ZIP generation started"
    /\ resp'.request_id \in jobs'

\* C23: when request_retreat_download starts a new generation and the job is
\* submitted, the new primary request is stored as 'processing' with
\* processing_started_at set.
PrimaryIsProcessing ==
    [][SubmittedStep =>
          /\ reqs'[resp'.request_id].status = "processing"
          /\ reqs'[resp'.request_id].processing_started_at # None]_vars

\* C24: the fast path never creates a 'ready' request whose s3_key names an
\* object that is no longer in the store.
FastPathValidatesObject ==
    [][FastPathStep =>
          reqs'[resp'.request_id].s3_key \notin s3_deleted']_vars

\* the download that brings the request's download_count to n
DownloadNumber(n) ==
    /\ resp'.op = "download"
    /\ Served
    /\ reqs'[resp'.arg].download_count = n
    /\ reqs[resp'.arg].download_count = n - 1

\* C25: the download that brings download_count to 3 extends the lifecycle
\* by a 3-day grant, and the one that brings it to 5 by a 5-day grant.
PopularityGrantsGrow ==
    [][/\ DownloadNumber(PopularThreshold)
          => reqs'[resp'.arg].expires_at =
                extend_lifecycle(reqs[resp'.arg], PopularDays).expires_at
       /\ DownloadNumber(VeryPopularThreshold)
          => reqs'[resp'.arg].expires_at =
                extend_lifecycle(reqs[resp'.arg], VeryPopularDays).expires_at]_vars

\* C26: every request whose status is 'ready' has s3_key, download_url and
\* file_size set, whether it became ready through the webhook on the primary,
\* the webhook fan-out to waiting requests, or the fast-path copy.
ReadyHasArtifact ==
    \A i \in Ids :
        reqs[i].status = "ready"
            => /\ reqs[i].s3_key # NULL
               /\ reqs[i].download_url # NULL
               /\ reqs[i].file_size # None

\* a primary and a waiting request made ready by one callback
ReadyHasArtifactWitness ==
    /\ resp.op = "webhook"
    /\ resp.code = 200
    /\ \E i \in Ids, j \in Ids :
          /\ IsPrimary(reqs[i])
          /\ ~reqs[j].is_shared
          /\ reqs[j].processing_started_at # None
          /\ reqs[i].status = "ready"
          /\ reqs[j].status = "ready"

\* C27: no user has two requests for one retreat that are both pending,
\* processing or ready and unexpired.
OneLiveRequest ==
    \A u \in Users, r \in Retreats :
        Cardinality(LiveRequests(reqs, u, r)) <= 1

\* C28: every request that is 'ready' has an expires_at, followers that
\* became ready through the webhook fan-out included.
ReadyHasExpiry ==
    \A i \in Ids : reqs[i].status = "ready" => reqs[i].expires_at # None

\* C29: one failed job submission, in request_retreat_download or in the
\* auto-recovery of download_file, leaves the request the job was for with a
\* retry_count of exactly 1.
OneFailureCountsOnce ==
    [][SubmissionFailedStep =>
          /\ Len(reqs') = Len(reqs) + 1
          /\ reqs'[Len(reqs')].retry_count = 1]_vars


\* request i is pending or processing
Waiting(i) == i \in Ids /\ reqs[i].status \in WaitingStatuses

\* C30: when the worker never calls back, the owner keeps polling and time
\* advances, every pending or processing request eventually leaves
\* pending/processing.
NoRequestWaitsForever ==
    \A i \in 1..MaxReqs : Waiting(i) ~> ~Waiting(i)

\* polls have failed a request after 30 minutes of processing and expired a
\* pending one after its expires_at
NoRequestWaitsForeverWitness ==
    /\ resp.op = "status"
    /\ \E i \in Ids, j \in Ids :
          /\ reqs[i].status = "failed"
          /\ reqs[i].error_message = "Processing timed out after 30 minutes"
          /\ reqs[j].status = "expired"
          /\ reqs[j].retry_count = 0

====
